---- MODULE Spec2Model ----
(***************************************************************************)
(* Model of the generation orchestrator of                                 *)
(* alea_legal_benchmark/contracts/generate_negotiation_variations_v3.py:   *)
(* clause fingerprinting, the resume ledger seeded from the output log,    *)
(* and the two scheduling modes of process_clauses (sequential and         *)
(* bounded-concurrency with asyncio).                                      *)
(*                                                                         *)
(* asyncio runs a task without interruption between two awaits.  The model *)
(* keeps the semaphore and the write lock as the code states them and      *)
(* lets a task stop between opening the output file and writing to it, so  *)
(* that the exclusion of writers is the lock's doing and not a side effect *)
(* of the granularity of the steps.                                        *)
(*                                                                         *)
(* The module also models the notation of contracts/reasoning_models.py    *)
(* (symbol tables, to_notation, the supporter and attacker queries) and    *)
(* the chain rendering of contracts/inspect_reasoning.py.                  *)
(***************************************************************************)
EXTENDS Integers, Sequences, FiniteSets, TLC

(***************************************************************************)
(* Bounds of the model.                                                    *)
(***************************************************************************)
\* longest input file, in lines
MaxBatch == 3
\* longest output log found before the first run, in lines
MaxPrior == 1
\* largest value of max_workers
MaxWorkers == 2
\* longest output log handed to load_existing_hashes alone (SpecLoad)
MaxLoadLines == 3

(***************************************************************************)
(* Clause records and their fingerprint.                                   *)
(***************************************************************************)
\* dict.get(key, '') on a key the clause lacks
Absent == "<absent>"

\* a clause record that has only the field clause
ClauseOnly(text) ==
    [clause |-> text, date |-> Absent, area_of_law |-> Absent,
     location |-> Absent, industry |-> Absent, clause_type |-> Absent]

\* the clause_data of an output line without original_clause_data: {}
EmptyClause ==
    [clause |-> Absent, date |-> Absent, area_of_law |-> Absent,
     location |-> Absent, industry |-> Absent, clause_type |-> Absent]

\* the clause records the input file is drawn from
Clauses == {ClauseOnly("a"), ClauseOnly("b"), ClauseOnly("c")}

\* clause_data.get(field) formatted into the string: None when the key is missing
Get_none(clause_data, field) ==
    IF clause_data[field] = Absent THEN "None" ELSE clause_data[field]

\* clause_data.get(field, '')
Get(clause_data, field) ==
    IF clause_data[field] = Absent THEN "" ELSE clause_data[field]

\* a hash input that also takes the timestamp of the record
hash_input_with_timestamp(clause_data) ==
    Get(clause_data, "clause")
        \o "|" \o Get(clause_data, "date")
        \o "|" \o Get(clause_data, "area_of_law")
        \o "|" \o Get(clause_data, "location")
        \o "|" \o Get(clause_data, "industry")
        \o "|" \o Get(clause_data, "clause_type")
        \o "|" \o Get(clause_data, "timestamp")

\* the string compute_clause_hash feeds to the hash
hash_input(clause_data) ==
    Get(clause_data, "clause")
        \o "|" \o Get(clause_data, "date")
        \o "|" \o Get(clause_data, "area_of_law")
        \o "|" \o Get(clause_data, "location")
        \o "|" \o Get(clause_data, "industry")
        \o "|" \o Get(clause_data, "clause_type")

\* hashlib.blake2b(...).hexdigest(): a digest that is a function of its input
\* and collision free on the inputs of the model
blake2b(text) == <<"blake2b", text>>

compute_clause_hash(clause_data) == blake2b(hash_input(clause_data))

(***************************************************************************)
(* Lines of the input file and of the output log.                          *)
(***************************************************************************)
\* a line of the input file that json.loads rejects
BadLine == [bad |-> TRUE]

InputLines == Clauses \cup {BadLine}

\* kinds of line of an output log:
\*   record     a JSON object whose original_clause_data is a clause dict
\*   nodata     a JSON object without original_clause_data
\*   baddata    a JSON object whose original_clause_data is not a dict
\*   nonobject  valid JSON that is not an object (a list, a number, a string)
\*   garbage    not JSON
\*   blank      white space only
\*   partial    the text of a record that no newline ends
Line(kind, data, run, idx) == [kind |-> kind, data |-> data, run |-> run, idx |-> idx]

\* json.dumps(result) of record idx of run run, the newline left out
RecordLine_unterminated(data, run, idx) == Line("partial", data, run, idx)

\* json.dumps(result) + "\n" of record idx of run run
RecordLine(data, run, idx) == Line("record", data, run, idx)

\* a line that was in the log before the first run
PriorRecord(data) == Line("record", data, 0, 0)

ForeignLine(kind) == Line(kind, EmptyClause, 0, 0)

\* all sequences over S of length at most n
SeqsUpTo(S, n) == UNION {[1..k -> S] : k \in 0..n}

\* the result of load_existing_hashes on a file with these lines
RaisesInScan(line) == line.kind \in {"nonobject", "baddata"}

load_existing_hashes(exists, lines) ==
    IF ~exists THEN {}
    ELSE IF \E k \in DOMAIN lines : RaisesInScan(lines[k]) THEN {}
    ELSE {compute_clause_hash(lines[k].data) :
              k \in {j \in DOMAIN lines : lines[j].kind \in {"record", "nodata"}}}

(***************************************************************************)
(* State.                                                                  *)
(***************************************************************************)
VARIABLES
    input_file,       \* the lines of the input file
    out_exists,       \* output_file.exists()
    out_lines,        \* the lines of the output file
    resume,           \* the resume argument
    max_workers,      \* the max_workers argument, 0 for None
    phase,            \* start, loaded, running, done, aborted (an exception left process_clauses)
    clauses,          \* the local list clauses
    existing_hashes,  \* the ledger
    mode,             \* the mode the output file is opened with
    pc,               \* the state of each record of clauses
    success_count,
    fail_count,
    skip_count,
    semaphore,        \* free slots of asyncio.Semaphore(max_workers)
    write_lock,       \* the record holding write_lock, 0 when it is free
    calls,            \* history: external generation calls started for each record
    io_error,         \* history: the records whose write raised OSError
    log0,             \* history: output file at the start of the run
    pass,             \* history: 1 in the first run, 2 in the second
    prev_fail,        \* history: fail_count at the end of the previous run
    probe             \* the arguments and results of a function applied on its own

vars == <<input_file, out_exists, out_lines, resume, max_workers, phase, clauses,
          existing_hashes, mode, pc, success_count, fail_count, skip_count,
          semaphore, write_lock, calls, io_error, log0, pass, prev_fail, probe>>

config == <<input_file, resume, max_workers>>
counters == <<success_count, fail_count, skip_count>>
history == <<log0, pass, prev_fail, probe>>

\* no function is applied on its own
NoProbe == [state |-> "none"]

Records == DOMAIN pc

Terminal(i) == pc[i] \in {"skipped", "succeeded", "failed"}

IsAsync == max_workers > 0

\* the lines before the first run: a record written by an earlier run, and a
\* line that is JSON but no record
PriorKinds ==
    {PriorRecord(ClauseOnly("a")), ForeignLine("nonobject")}

NoFile == [exists |-> FALSE, lines |-> <<>>]

PriorLogs(kinds, n) ==
    {NoFile} \cup {[exists |-> TRUE, lines |-> s] : s \in SeqsUpTo(kinds, n)}

\* the state before process_clauses is called
Fresh ==
    /\ phase = "start"
    /\ clauses = <<>>
    /\ existing_hashes = {}
    /\ mode = "a"
    /\ pc = <<>>
    /\ success_count = 0
    /\ fail_count = 0
    /\ skip_count = 0
    /\ semaphore = 0
    /\ write_lock = 0
    /\ calls = <<>>
    /\ io_error = {}

\* the position of the first line equal to x, past the end when there is none
FirstAt(s, x) ==
    IF \E k \in DOMAIN s : s[k] = x
    THEN CHOOSE k \in DOMAIN s : s[k] = x /\ \A j \in 1..(k - 1) : s[j] # x
    ELSE Len(s) + 1

\* the clauses "b" and "c" occur in no prior log and differ in name only: of two
\* input files that are each other's image under their exchange, the one in
\* which "b" comes first is kept
Canonical(s) == FirstAt(s, ClauseOnly("b")) <= FirstAt(s, ClauseOnly("c"))

InputFiles == {s \in SeqsUpTo(InputLines, MaxBatch) : Canonical(s)}

Init ==
    /\ input_file \in InputFiles
    /\ \E prior \in PriorLogs(PriorKinds, MaxPrior) :
          /\ out_exists = prior.exists
          /\ out_lines = prior.lines
          /\ log0 = prior
    /\ resume \in BOOLEAN
    /\ max_workers \in 0..MaxWorkers
    /\ pass = 1
    /\ prev_fail = 0
    /\ probe = NoProbe
    /\ Fresh

(***************************************************************************)
(* process_clauses and process_clauses_async up to the processing loop.    *)
(***************************************************************************)
\* clauses = [json.loads(line) for line in f]: json.loads raises on a line that
\* is not JSON and nothing catches it
LoadClauses ==
    /\ phase = "start"
    /\ IF \E k \in DOMAIN input_file : input_file[k] = BadLine
       THEN /\ phase' = "aborted"
            /\ UNCHANGED clauses
       ELSE /\ phase' = "loaded"
            /\ clauses' = input_file
    /\ UNCHANGED <<config, out_exists, out_lines, existing_hashes, mode, pc, counters,
                   semaphore, write_lock, calls, io_error, history>>

\* the clauses the resume filter keeps
FilterClauses(cs, seeded) ==
    LET Keep(c) == compute_clause_hash(c) \notin seeded
    IN  IF seeded # {} THEN SelectSeq(cs, Keep) ELSE cs

\* mode = "a" if resume or output_file.exists() else "w"
OpenMode(res, exists) == IF res \/ exists THEN "a" ELSE "w"

\* open(output_file, mode): the content of the file after the open
Opened(m, lines) == IF m = "w" THEN <<>> ELSE lines

\* seeding of the ledger, the resume filter, the early return, the counters and
\* the mode; in sequential mode the single open of the output file
Prepare ==
    /\ phase = "loaded"
    /\ LET seeded == IF resume THEN load_existing_hashes(out_exists, out_lines) ELSE {}
           todo == IF resume THEN FilterClauses(clauses, seeded) ELSE clauses
           m == OpenMode(resume, out_exists)
       IN  /\ existing_hashes' = seeded
           /\ clauses' = todo
           /\ IF todo = <<>>
              THEN /\ phase' = "done"
                   /\ UNCHANGED <<out_exists, out_lines, mode, pc, counters, semaphore, calls>>
              ELSE /\ phase' = "running"
                   /\ mode' = m
                   /\ pc' = [i \in 1..Len(todo) |-> "pending"]
                   /\ calls' = [i \in 1..Len(todo) |-> 0]
                   /\ success_count' = 0
                   /\ fail_count' = 0
                   /\ skip_count' = IF resume THEN Cardinality(seeded) ELSE 0
                   /\ semaphore' = max_workers
                   /\ IF IsAsync
                      THEN UNCHANGED <<out_exists, out_lines>>
                      ELSE /\ out_exists' = TRUE
                           /\ out_lines' = Opened(m, out_lines)
    /\ UNCHANGED <<config, write_lock, io_error, history>>

(***************************************************************************)
(* Bounded-concurrency mode: process_clauses_async.process_one.            *)
(***************************************************************************)
\* a semaphore that never makes a task wait
semaphore_free_unbounded == TRUE

\* async with semaphore: a slot is free
semaphore_free == semaphore > 0

\* a write lock that never makes a task wait
write_lock_free_unlocked == TRUE

\* async with write_lock: the lock is free
write_lock_free == write_lock = 0

\* a ledger that keeps the last fingerprint only
LedgerAdd_replace(clause_hash) == {clause_hash}

\* a ledger to which nothing is added during the run
LedgerAdd_forgets(clause_hash) == existing_hashes

\* existing_hashes.add(clause_hash)
LedgerAdd(clause_hash) == existing_hashes \cup {clause_hash}

\* a ledger check that never finds the fingerprint
AlreadyProcessed_never(i) == FALSE

\* clause_hash in existing_hashes
AlreadyProcessed(i) == compute_clause_hash(clauses[i]) \in existing_hashes

\* a task takes a slot, checks the ledger and either counts a skip and leaves
\* or starts the external call
Enter(i) ==
    /\ phase = "running" /\ IsAsync
    /\ pc[i] = "pending"
    /\ semaphore_free
    /\ IF AlreadyProcessed(i)
       THEN /\ write_lock_free
            /\ skip_count' = skip_count + 1
            /\ pc' = [pc EXCEPT ![i] = "skipped"]
            /\ UNCHANGED <<semaphore, calls>>
       ELSE /\ semaphore' = semaphore - 1
            /\ pc' = [pc EXCEPT ![i] = "generating"]
            /\ calls' = [calls EXCEPT ![i] = @ + 1]
            /\ UNCHANGED skip_count
    /\ UNCHANGED <<config, out_exists, out_lines, phase, clauses, existing_hashes, mode,
                   success_count, fail_count, write_lock, io_error, history>>

\* the external call returns a result; the task takes write_lock and opens the
\* output file with mode
GenOK(i) ==
    /\ phase = "running" /\ IsAsync
    /\ pc[i] = "generating"
    /\ write_lock_free
    /\ write_lock' = i
    /\ out_exists' = TRUE
    /\ out_lines' = Opened(mode, out_lines)
    /\ pc' = [pc EXCEPT ![i] = "writing"]
    /\ UNCHANGED <<config, phase, clauses, existing_hashes, mode, counters, semaphore,
                   calls, io_error, history>>

\* the external call raises: except Exception counts the failure under write_lock
GenFail(i) ==
    /\ phase = "running" /\ IsAsync
    /\ pc[i] = "generating"
    /\ write_lock_free
    /\ fail_count' = fail_count + 1
    /\ semaphore' = semaphore + 1
    /\ pc' = [pc EXCEPT ![i] = "failed"]
    /\ UNCHANGED <<config, out_exists, out_lines, phase, clauses, existing_hashes, mode,
                   success_count, skip_count, write_lock, calls, io_error, history>>

\* out_f.write(json.dumps(result) + "\n"); out_f.flush(); the file is closed,
\* the hash is added, the success counted, the lock and the slot released
WriteOK(i) ==
    /\ phase = "running" /\ IsAsync
    /\ pc[i] = "writing"
    /\ out_lines' = Append(out_lines, RecordLine(clauses[i], pass, i))
    /\ existing_hashes' = LedgerAdd(compute_clause_hash(clauses[i]))
    /\ success_count' = success_count + 1
    /\ write_lock' = 0
    /\ semaphore' = semaphore + 1
    /\ pc' = [pc EXCEPT ![i] = "succeeded"]
    /\ UNCHANGED <<config, out_exists, phase, clauses, mode, fail_count, skip_count,
                   calls, io_error, history>>

\* the write raises and the task ends without releasing write_lock
WriteFail_keeps_lock(i) ==
    /\ phase = "running" /\ IsAsync
    /\ pc[i] = "writing"
    /\ fail_count' = fail_count + 1
    /\ io_error' = io_error \cup {i}
    /\ semaphore' = semaphore + 1
    /\ pc' = [pc EXCEPT ![i] = "failed"]
    /\ UNCHANGED <<config, out_exists, out_lines, phase, clauses, existing_hashes, mode,
                   success_count, skip_count, write_lock, calls, history>>

\* the write or the flush raises OSError: the lock is released on the way out of
\* the with block, except Exception takes it again and counts a failure
WriteFail(i) ==
    /\ phase = "running" /\ IsAsync
    /\ pc[i] = "writing"
    /\ fail_count' = fail_count + 1
    /\ io_error' = io_error \cup {i}
    /\ write_lock' = 0
    /\ semaphore' = semaphore + 1
    /\ pc' = [pc EXCEPT ![i] = "failed"]
    /\ UNCHANGED <<config, out_exists, out_lines, phase, clauses, existing_hashes, mode,
                   success_count, skip_count, calls, history>>

\* every task of as_completed has been awaited: the summary is printed
AsyncFinish ==
    /\ phase = "running" /\ IsAsync
    /\ \A i \in Records : Terminal(i)
    /\ phase' = "done"
    /\ UNCHANGED <<config, out_exists, out_lines, clauses, existing_hashes, mode, pc,
                   counters, semaphore, write_lock, calls, io_error, history>>

(***************************************************************************)
(* Sequential mode: the loop of process_clauses.                           *)
(***************************************************************************)
\* a loop that takes the records in any order
Current_any(i) == ~Terminal(i)

\* the record the for loop is at
Current(i) ==
    /\ ~Terminal(i)
    /\ \A j \in Records : j < i => Terminal(j)

\* the ledger check of the loop body: a skip, or the external call starts
SeqCheck(i) ==
    /\ phase = "running" /\ ~IsAsync
    /\ Current(i) /\ pc[i] = "pending"
    /\ IF AlreadyProcessed(i)
       THEN /\ skip_count' = skip_count + 1
            /\ pc' = [pc EXCEPT ![i] = "skipped"]
            /\ UNCHANGED calls
       ELSE /\ pc' = [pc EXCEPT ![i] = "generating"]
            /\ calls' = [calls EXCEPT ![i] = @ + 1]
            /\ UNCHANGED skip_count
    /\ UNCHANGED <<config, out_exists, out_lines, phase, clauses, existing_hashes, mode,
                   success_count, fail_count, semaphore, write_lock, io_error, history>>

\* the call returns, the line is written and flushed, the hash added
SeqGenOK(i) ==
    /\ phase = "running" /\ ~IsAsync
    /\ pc[i] = "generating"
    /\ out_lines' = Append(out_lines, RecordLine(clauses[i], pass, i))
    /\ existing_hashes' = LedgerAdd(compute_clause_hash(clauses[i]))
    /\ success_count' = success_count + 1
    /\ pc' = [pc EXCEPT ![i] = "succeeded"]
    /\ UNCHANGED <<config, out_exists, phase, clauses, mode, fail_count, skip_count,
                   semaphore, write_lock, calls, io_error, history>>

\* the call returns and the write or the flush raises OSError: except Exception
\* counts a failure and the loop goes on
SeqWriteFail(i) ==
    /\ phase = "running" /\ ~IsAsync
    /\ pc[i] = "generating"
    /\ fail_count' = fail_count + 1
    /\ io_error' = io_error \cup {i}
    /\ pc' = [pc EXCEPT ![i] = "failed"]
    /\ UNCHANGED <<config, out_exists, out_lines, phase, clauses, existing_hashes, mode,
                   success_count, skip_count, semaphore, write_lock, calls, history>>

\* the call raises and the loop body is run again for the same record
SeqGenFail_retry(i) ==
    /\ phase = "running" /\ ~IsAsync
    /\ pc[i] = "generating"
    /\ fail_count' = fail_count + 1
    /\ pc' = [pc EXCEPT ![i] = "pending"]
    /\ UNCHANGED <<config, out_exists, out_lines, phase, clauses, existing_hashes, mode,
                   success_count, skip_count, semaphore, write_lock, calls, io_error,
                   history>>

\* the call raises and the failure is not counted
SeqGenFail_uncounted(i) ==
    /\ phase = "running" /\ ~IsAsync
    /\ pc[i] = "generating"
    /\ pc' = [pc EXCEPT ![i] = "failed"]
    /\ UNCHANGED <<config, out_exists, out_lines, phase, clauses, existing_hashes, mode,
                   counters, semaphore, write_lock, calls, io_error, history>>

\* the call raises: except Exception counts a failure and the loop goes on
SeqGenFail(i) ==
    /\ phase = "running" /\ ~IsAsync
    /\ pc[i] = "generating"
    /\ fail_count' = fail_count + 1
    /\ pc' = [pc EXCEPT ![i] = "failed"]
    /\ UNCHANGED <<config, out_exists, out_lines, phase, clauses, existing_hashes, mode,
                   success_count, skip_count, semaphore, write_lock, calls, io_error,
                   history>>

\* the loop is over: the file is closed and the summary printed
SeqFinish ==
    /\ phase = "running" /\ ~IsAsync
    /\ \A i \in Records : Terminal(i)
    /\ phase' = "done"
    /\ UNCHANGED <<config, out_exists, out_lines, clauses, existing_hashes, mode, pc,
                   counters, semaphore, write_lock, calls, io_error, history>>

Next ==
    \/ LoadClauses
    \/ Prepare
    \/ \E i \in Records : Enter(i)
    \/ \E i \in Records : GenOK(i)
    \/ \E i \in Records : GenFail(i)
    \/ \E i \in Records : WriteOK(i)
    \/ \E i \in Records : WriteFail(i)
    \/ AsyncFinish
    \/ \E i \in Records : SeqCheck(i)
    \/ \E i \in Records : SeqGenOK(i)
    \/ \E i \in Records : SeqWriteFail(i)
    \/ \E i \in Records : SeqGenFail(i)
    \/ SeqFinish

Spec == Init /\ [][Next]_vars

(***************************************************************************)
(* load_existing_hashes alone, on every output log of at most MaxLoadLines *)
(* lines.                                                                  *)
(***************************************************************************)
LoadKinds ==
    {PriorRecord(ClauseOnly("a")), PriorRecord(ClauseOnly("b")),
     ForeignLine("nodata"), ForeignLine("baddata"), ForeignLine("nonobject"),
     ForeignLine("garbage"), ForeignLine("blank")}

InitLoad ==
    /\ input_file = <<>>
    /\ \E prior \in PriorLogs(LoadKinds, MaxLoadLines) :
          /\ out_exists = prior.exists
          /\ out_lines = prior.lines
          /\ log0 = prior
    /\ resume = TRUE
    /\ max_workers = 0
    /\ pass = 1
    /\ prev_fail = 0
    /\ probe = NoProbe
    /\ Fresh

\* existing_hashes = load_existing_hashes(output_file)
SeedLedger ==
    /\ phase = "start"
    /\ existing_hashes' = load_existing_hashes(out_exists, out_lines)
    /\ phase' = "seeded"
    /\ UNCHANGED <<config, out_exists, out_lines, clauses, mode, pc, counters,
                   semaphore, write_lock, calls, io_error, history>>

NextLoad == SeedLedger

SpecLoad == InitLoad /\ [][NextLoad]_vars

(***************************************************************************)
(* Two runs of process_clauses on the same input file and output file,     *)
(* resume enabled.                                                         *)
(***************************************************************************)
InitTwice ==
    /\ Init
    /\ resume = TRUE

\* process_clauses is called again with the same arguments
Rerun ==
    /\ phase = "done"
    /\ pass = 1
    /\ pass' = 2
    /\ prev_fail' = fail_count
    /\ log0' = [exists |-> out_exists, lines |-> out_lines]
    /\ phase' = "start"
    /\ clauses' = <<>>
    /\ existing_hashes' = {}
    /\ mode' = "a"
    /\ pc' = <<>>
    /\ success_count' = 0
    /\ fail_count' = 0
    /\ skip_count' = 0
    /\ semaphore' = 0
    /\ write_lock' = 0
    /\ calls' = <<>>
    /\ io_error' = {}
    /\ UNCHANGED <<config, out_exists, out_lines, probe>>

NextTwice ==
    \/ Next
    \/ Rerun

SpecTwice == InitTwice /\ [][NextTwice]_vars

(***************************************************************************)
(* Properties.                                                             *)
(***************************************************************************)
Generating == {i \in Records : pc[i] = "generating"}
Writing == {i \in Records : pc[i] = "writing"}
Pending == {i \in Records : pc[i] = "pending"}
Succeeded == {i \in Records : pc[i] = "succeeded"}

\* the records whose external call raised
GenFailed == {i \in Records : pc[i] = "failed" /\ i \notin io_error}

SameFingerprint(i, j) ==
    compute_clause_hash(clauses[i]) = compute_clause_hash(clauses[j])

\* the lines of the log that the current run wrote
OwnLines == {k \in DOMAIN out_lines : out_lines[k].run = pass}

IsPrefix(s, t) ==
    /\ Len(s) <= Len(t)
    /\ \A k \in DOMAIN s : s[k] = t[k]

\* C1: in bounded-concurrency mode at most one external generation call is
\* started per fingerprint during a run, whatever the batch and the interleaving:
\* no two records with the same fingerprint have both had a call started.
C1_OneCallPerFingerprint ==
    IsAsync =>
        \A i, j \in DOMAIN calls :
            (i # j /\ SameFingerprint(i, j)) => ~(calls[i] > 0 /\ calls[j] > 0)

\* C2: a line appended to the output log during a run stays there for the rest
\* of the run: in every state the log holds the line of every record that has
\* reached Succeeded, in both modes and for both values of resume.
C2_WrittenLinesStay ==
    \A i \in Succeeded :
        \E k \in DOMAIN out_lines : out_lines[k] = RecordLine(clauses[i], pass, i)

\* C3: failure isolation: from an empty or absent log, for a batch of records
\* with pairwise distinct fingerprints in which the generator fails for exactly
\* one record and succeeds for all others (and every write succeeds), the
\* finished run leaves batch size - 1 records in the log and a failure count of 1.
C3_FailureIsolation ==
    ( /\ phase = "done"
      /\ log0.lines = <<>>
      /\ \A k \in DOMAIN input_file : input_file[k] # BadLine
      /\ \A k, m \in DOMAIN input_file : k # m => input_file[k] # input_file[m]
      /\ Cardinality(GenFailed) = 1
      /\ io_error = {}
      /\ \A i \in Records \ GenFailed : calls[i] = 1 /\ pc[i] = "succeeded" )
    => /\ Len(out_lines) = Len(input_file) - 1
       /\ fail_count = 1

\* C4: dedup idempotence: in a second run on the same input file and output
\* log with resume enabled, after a first run in which no record failed, no
\* external generation call is started and no line is appended to the log.
C4_SecondPassAddsNothing ==
    (pass = 2 /\ resume /\ prev_fail = 0) =>
        /\ \A i \in DOMAIN calls : calls[i] = 0
        /\ out_lines = log0.lines

\* C5: a write failure on the output log is fatal to the run: once a write has
\* raised, the error has left the orchestrator (the run is aborted) and the
\* failure is not counted as a per-record failure with the run going on.
C5_WriteFailureFatal ==
    io_error # {} => phase = "aborted"

\* C6: an input line that is not valid JSON is skipped and scanning continues:
\* the run never aborts, and the records taken into the run are the well-formed
\* lines of the input file, those before and those after a bad line.
C6_BadInputLineSkipped ==
    LET WellFormed(line) == line # BadLine
    IN  /\ phase # "aborted"
        /\ phase = "loaded" => clauses = SelectSeq(input_file, WellFormed)

\* the fingerprints of the well-formed record lines of a log
RecordHashes(lines) ==
    {compute_clause_hash(lines[k].data) :
        k \in {j \in DOMAIN lines : lines[j].kind = "record"}}

\* C7: for any content of the existing output log, load_existing_hashes returns
\* the fingerprints of all well-formed record lines: a line that is not a JSON
\* record object never makes the fingerprint of another line miss from the ledger
\* (an object without original_clause_data may add the fingerprint of the empty
\* clause, nothing else is added).
C7_SeedingToleratesMalformed ==
    phase = "seeded" =>
        /\ RecordHashes(out_lines) \subseteq existing_hashes
        /\ existing_hashes \subseteq
               RecordHashes(out_lines) \cup {compute_clause_hash(EmptyClause)}

\* C8: in bounded-concurrency mode with max_workers = N at most N records are
\* in the Generating state (external call in flight) in any reachable state.
C8_AtMostNGenerating ==
    IsAsync => Cardinality(Generating) <= max_workers

\* C8 witness: max_workers calls are in flight and a further record waits for a slot
C8_Witness ==
    /\ IsAsync
    /\ phase = "running"
    /\ Cardinality(Generating) = max_workers
    /\ Pending # {}

\* C9: in bounded-concurrency mode appends are mutually exclusive: at most one
\* task is between opening the output file and finishing its write, that task
\* holds write_lock, and every line the run has written is the one complete
\* line of one record, no record having more than its own line.
C9_AppendsExclusive ==
    IsAsync =>
        /\ Cardinality(Writing) <= 1
        /\ \A i \in Writing : write_lock = i
        /\ \A k \in OwnLines :
              /\ out_lines[k].idx \in Succeeded
              /\ out_lines[k] = RecordLine(clauses[out_lines[k].idx], pass, out_lines[k].idx)
        /\ \A k, m \in OwnLines : out_lines[k].idx = out_lines[m].idx => k = m

\* C9 witness: a task is between open and write while the call of another task,
\* still holding its slot, is complete or in flight, after a line was written
C9_Witness ==
    /\ IsAsync
    /\ \E i \in Writing : \E j \in Generating : i # j
    /\ OwnLines # {}

\* C10: the log is overwritten when resume is disabled and appended to when it
\* is enabled: after a run that wrote a record, with resume disabled the file
\* holds only lines of this run, with resume enabled the prior content is kept
\* and the new lines follow it.
C10_ModeFollowsResume ==
    (phase = "done" /\ success_count > 0) =>
        IF resume
        THEN /\ IsPrefix(log0.lines, out_lines)
             /\ \A k \in DOMAIN out_lines : k > Len(log0.lines) => out_lines[k].run = pass
        ELSE \A k \in DOMAIN out_lines : out_lines[k].run = pass

\* C11: a record whose fingerprint is in the ledger when it is checked goes to
\* Skipped: the step that takes it out of Pending starts no external call for
\* it and appends no line, and a Skipped record never has a call or a line.
C11_LedgerHitSkips ==
    /\ [](\A i \in Records : pc[i] = "skipped" =>
              /\ calls[i] = 0
              /\ \A k \in OwnLines : out_lines[k].idx # i)
    /\ [][\A i \in DOMAIN pc :
              ( /\ i \in DOMAIN pc'
                /\ pc[i] = "pending"
                /\ pc'[i] # "pending"
                /\ compute_clause_hash(clauses[i]) \in existing_hashes )
              => /\ pc'[i] = "skipped"
                 /\ calls'[i] = 0
                 /\ out_lines' = out_lines]_vars

\* C11 witness: a record was skipped because a record with the same fingerprint
\* succeeded earlier in the run
C11_Witness ==
    \E i, j \in Records :
        /\ pc[i] = "skipped"
        /\ pc[j] = "succeeded"
        /\ SameFingerprint(i, j)

\* the records of the input file that the resume filter removed
FilteredOut == Len(input_file) - Len(clauses)

\* C12: the skipped count reported at the end of a run equals the number of
\* input records of the run that reached Skipped, by the initial filter or by
\* the per-record check.
C12_SkipCountIsSkipped ==
    (phase = "done" /\ Records # {}) =>
        skip_count = FilteredOut + Cardinality({i \in Records : pc[i] = "skipped"})

\* C13: a Failed record is terminal and is not retried within the run: no
\* record ever has more than one external call started, a Failed record stays
\* Failed with no further call, a failure does not abort the run, and the
\* finished run has taken every record, those after a failure too, to a
\* terminal state.
C13_FailedNotRetried ==
    /\ [](\A i \in Records :
              /\ calls[i] <= 1
              /\ pc[i] = "failed" => phase \in {"running", "done"}
              /\ phase = "done" => Terminal(i))
    /\ [][\A i \in DOMAIN pc :
              (i \in DOMAIN pc' /\ pc[i] = "failed")
              => (pc'[i] = "failed" /\ calls'[i] = calls[i])]_vars

\* C13 witness: after a record failed, a later record had its call and reached
\* a terminal state
C13_Witness ==
    \E i, j \in Records :
        /\ i < j
        /\ pc[i] = "failed"
        /\ calls[j] = 1
        /\ pc[j] = "succeeded"
        /\ phase = "done"

\* C14: with resume enabled the ledger is exactly the set of fingerprints
\* derivable from the output log: after seeding and after every completed
\* append, a fingerprint is in the ledger if and only if a record line of the
\* log carries original_clause_data with that fingerprint.
C14_LedgerIsLogHashes ==
    (resume /\ phase \in {"running", "done"}) =>
        existing_hashes = RecordHashes(out_lines)

\* C15: the ledger grows monotonically during a run, in both modes: no step
\* of the run removes a fingerprint that seeding or a success put there.
C15_LedgerMonotone ==
    [][existing_hashes \subseteq existing_hashes']_vars

\* C15 witness: the ledger holds a fingerprint from seeding and one that a
\* success of the run added
C15_Witness ==
    /\ phase = "running"
    /\ RecordHashes(log0.lines) # {}
    /\ RecordHashes(log0.lines) \subseteq existing_hashes
    /\ \E i \in Succeeded :
          /\ compute_clause_hash(clauses[i]) \in existing_hashes
          /\ compute_clause_hash(clauses[i]) \notin RecordHashes(log0.lines)

(***************************************************************************)
(* Cancellation of the run: KeyboardInterrupt is no Exception, so no except *)
(* clause of the loops catches it; it leaves process_clauses through the    *)
(* with block of the open file, whose close flushes what was written to the *)
(* handle and not yet flushed.                                              *)
(***************************************************************************)
\* the content of the file after close() with these lines still in the handle
CloseFlush(lines, buffered) == lines \o buffered

\* the interrupt arrives between two steps: nothing is in the handle (a killed
\* process, which flushes nothing, stops in the same states)
Interrupt ==
    /\ phase \in {"start", "loaded", "running"}
    /\ phase' = "cancelled"
    /\ UNCHANGED <<config, out_exists, out_lines, clauses, existing_hashes, mode, pc,
                   counters, semaphore, write_lock, calls, io_error, history>>

\* the interrupt arrives after out_f.write(...) and before out_f.flush() of
\* record i: the line is in the handle when the with block closes the file
InterruptInWrite(i) ==
    /\ phase = "running"
    /\ pc[i] = IF IsAsync THEN "writing" ELSE "generating"
    /\ phase' = "cancelled"
    /\ out_lines' = CloseFlush(out_lines, <<RecordLine(clauses[i], pass, i)>>)
    /\ UNCHANGED <<config, out_exists, clauses, existing_hashes, mode, pc,
                   counters, semaphore, write_lock, calls, io_error, history>>

NextCancel ==
    \/ Next
    \/ Interrupt
    \/ \E i \in Records : InterruptInWrite(i)

SpecCancel == Init /\ [][NextCancel]_vars

\* C16: cancelling the run between any two steps of any worker leaves the log
\* line-complete: in every state the run can be stopped in, and after the
\* close that follows an interrupt, every line of the log is ended by its
\* newline and every line the run wrote is one complete record line.
C16_LogLineComplete ==
    /\ \A k \in DOMAIN out_lines : out_lines[k].kind # "partial"
    /\ \A k \in OwnLines :
          /\ out_lines[k].idx \in Records
          /\ out_lines[k] = RecordLine(clauses[out_lines[k].idx], pass, out_lines[k].idx)

\* C16 witness: the run was cancelled between the write and the flush of a
\* record, after another record had been written
C16_Witness ==
    /\ phase = "cancelled"
    /\ \E k, m \in OwnLines :
          /\ pc[out_lines[k].idx] = "succeeded"
          /\ pc[out_lines[m].idx] \in {"writing", "generating"}

\* C17: in sequential mode records are processed one at a time, strictly in
\* input order: a record has left Pending only when every record before it is
\* terminal (so at most one call is in flight), and the lines of the run are
\* in the log in the input order of the records that succeeded.
C17_SequentialInOrder ==
    ~IsAsync =>
        /\ \A i, j \in Records : (j < i /\ pc[i] # "pending") => Terminal(j)
        /\ Cardinality(Generating) <= 1
        /\ \A k, m \in OwnLines : k < m => out_lines[k].idx < out_lines[m].idx

\* C17 witness: a sequential run wrote the first and the third record, the
\* second having failed
C17_Witness ==
    /\ ~IsAsync
    /\ phase = "done"
    /\ Len(clauses) = 3
    /\ pc = <<"succeeded", "failed", "succeeded">>
    /\ Cardinality(OwnLines) = 2

(***************************************************************************)
(* Fair runs: the event loop runs a task that can take a step, and every   *)
(* external call returns or raises.                                        *)
(***************************************************************************)
\* the runs that get past the reading of the input, on an output file that is
\* absent, empty or made of record lines
InitFair ==
    /\ Init
    /\ \A k \in DOMAIN input_file : input_file[k] # BadLine
    /\ log0 \in PriorLogs({PriorRecord(ClauseOnly("a"))}, MaxPrior)

SpecFair == InitFair /\ [][Next]_vars /\ WF_vars(Next)

\* the run is over and every record is in a terminal state
Finished ==
    /\ phase = "done"
    /\ \A i \in Records : Terminal(i)

\* C18: if every external call eventually returns or fails, a run that has
\* read its input terminates, in both modes, with every record in a terminal
\* state: no task waits forever for the semaphore or the write lock.
C18_RunTerminates ==
    (phase = "loaded") ~> Finished

\* C18 witness: a bounded-concurrency run with more records than slots is over,
\* with records in each of the three terminal states
C18_Witness ==
    /\ Finished
    /\ IsAsync
    /\ Len(clauses) > max_workers
    /\ \E i, j, k \in Records :
          pc[i] = "succeeded" /\ pc[j] = "failed" /\ pc[k] = "skipped"

(***************************************************************************)
(* compute_clause_hash alone, on pairs of records.                         *)
(***************************************************************************)
\* the six keys compute_clause_hash reads
HashFields == {"clause", "date", "area_of_law", "location", "industry", "clause_type"}

\* records in which each of the six keys is missing or the empty string (the
\* clause may also be a text, the clause and the date may hold the separator),
\* with a key the fingerprint does not read
HashRecords ==
    [clause : {Absent, "", "a", "a|"}, date : {Absent, "", "|"},
     area_of_law : {Absent, ""}, location : {Absent, ""}, industry : {Absent, ""},
     clause_type : {Absent, ""}, timestamp : {"t1", "t2"}]

InitHash ==
    /\ input_file = <<>>
    /\ out_exists = FALSE
    /\ out_lines = <<>>
    /\ log0 = NoFile
    /\ resume = TRUE
    /\ max_workers = 0
    /\ pass = 1
    /\ prev_fail = 0
    /\ \E a, b \in HashRecords :
          probe = [state |-> "input", a |-> a, b |-> b, ha |-> <<>>, hb |-> <<>>]
    /\ Fresh

\* compute_clause_hash applied to the two records
Fingerprint ==
    /\ probe.state = "input"
    /\ probe' = [probe EXCEPT !.state = "hashed",
                              !.ha = compute_clause_hash(probe.a),
                              !.hb = compute_clause_hash(probe.b)]
    /\ UNCHANGED <<config, out_exists, out_lines, phase, clauses, existing_hashes, mode,
                   pc, counters, semaphore, write_lock, calls, io_error, log0, pass,
                   prev_fail>>

NextHash == Fingerprint

SpecHash == InitHash /\ [][NextHash]_vars

\* the two records have the same value, or both lack the key, for each of the
\* six keys
SameSixFields(a, b) == \A f \in HashFields : a[f] = b[f]

\* C19: fingerprint stability: compute_clause_hash depends only on the six
\* fields: two records that agree on all six have the same fingerprint,
\* whatever their other fields.
C19_FingerprintOfSixFields ==
    (probe.state = "hashed" /\ SameSixFields(probe.a, probe.b)) => probe.ha = probe.hb

\* C19 witness: two records with the same six fields and different timestamps
\* were hashed
C19_Witness ==
    /\ probe.state = "hashed"
    /\ SameSixFields(probe.a, probe.b)
    /\ probe.a.clause = "a"
    /\ probe.a.timestamp # probe.b.timestamp

\* b is a with the missing key f set to the empty string
FilledWithEmpty(a, b) ==
    \E f \in HashFields : a[f] = Absent /\ b = [a EXCEPT ![f] = ""]

\* C20: an absent field counts as the empty string: for each of the six
\* fields, a record that lacks it has the fingerprint of the otherwise
\* identical record in which it is the empty string.
C20_AbsentIsEmpty ==
    (probe.state = "hashed" /\ FilledWithEmpty(probe.a, probe.b)) => probe.ha = probe.hb

\* C20 witness: a record lacking its date and the same record with an empty
\* date were hashed
C20_Witness ==
    /\ probe.state = "hashed"
    /\ probe.a.clause = "a"
    /\ probe.a.date = Absent
    /\ probe.b = [probe.a EXCEPT !.date = ""]

\* the ledger right after seeding
Seeded == IF resume THEN load_existing_hashes(log0.exists, log0.lines) ELSE {}

\* the log holds the line of record i of this run
LineInLog(i) ==
    \E k \in DOMAIN out_lines : out_lines[k] = RecordLine(clauses[i], pass, i)

\* C26: in both scheduling modes a fingerprint is added to the ledger only
\* after the line of its record is in the log: in every state each fingerprint
\* of the ledger that was not seeded is the fingerprint of a Succeeded record
\* whose line is in the log (never that of a record that only failed or was
\* skipped).
C26_LedgerAfterLine ==
    phase \in {"running", "done"} =>
        \A h \in existing_hashes \ Seeded :
            \E i \in Records :
                /\ compute_clause_hash(clauses[i]) = h
                /\ pc[i] = "succeeded"
                /\ LineInLog(i)

\* the lines this run appended for fingerprint h
OwnLinesOf(h) == {k \in OwnLines : compute_clause_hash(out_lines[k].data) = h}

\* C27: in sequential mode, when the batch has several records with the same
\* fingerprint, at most one line with that fingerprint is appended during the
\* run, and none if the fingerprint was in the seeded ledger; a later duplicate
\* is generated only if every earlier record with that fingerprint failed.
C27_SequentialDuplicates ==
    (~IsAsync /\ phase \in {"running", "done"}) =>
        /\ \A i \in Records :
              Cardinality(OwnLinesOf(compute_clause_hash(clauses[i]))) <= 1
        /\ \A k \in DOMAIN input_file :
              compute_clause_hash(input_file[k]) \in Seeded
                  => OwnLinesOf(compute_clause_hash(input_file[k])) = {}
        /\ \A i, j \in Records :
              (i < j /\ SameFingerprint(i, j) /\ calls[j] > 0) => pc[i] = "failed"

\* C27 witness: of three records with one fingerprint the first failed, the
\* second was generated and written, the third skipped
C27_Witness ==
    /\ ~IsAsync /\ phase = "done"
    /\ \E i, j, k \in Records :
          /\ i < j /\ j < k
          /\ SameFingerprint(i, j) /\ SameFingerprint(j, k)
          /\ pc[i] = "failed" /\ pc[j] = "succeeded" /\ pc[k] = "skipped"
          /\ Cardinality(OwnLinesOf(compute_clause_hash(clauses[i]))) = 1

\* C28: counter conservation: at the end of a run in either mode success_count
\* is the number of lines appended during the run (one per Succeeded record,
\* and the number of lines of the run in the log when no open truncated it),
\* success_count + fail_count + the number of records the per-record check
\* skipped is the number of records left by the resume filter, and each record
\* has incremented exactly one counter once.
C28_CounterConservation ==
    LET Failed == {i \in Records : pc[i] = "failed"}
        Skipped == {i \in Records : pc[i] = "skipped"}
        skip_base == IF resume THEN Cardinality(Seeded) ELSE 0
    IN  phase = "done" =>
            /\ success_count = Cardinality(Succeeded)
            /\ (~IsAsync \/ mode = "a") => success_count = Cardinality(OwnLines)
            /\ fail_count = Cardinality(Failed)
            /\ Records # {} => skip_count - skip_base = Cardinality(Skipped)
            /\ success_count + fail_count + Cardinality(Skipped) = Len(clauses)

\* C28 witness: a finished run of three records, one written, one failed, one
\* skipped by the per-record check
C28_Witness ==
    /\ phase = "done"
    /\ success_count = 1 /\ fail_count = 1
    /\ Cardinality({i \in Records : pc[i] = "skipped"}) = 1
    /\ Len(clauses) = 3

\* every one of the six keys is present, with a string
AllStrings(a) == \A f \in HashFields : a[f] # Absent

\* C30: the string compute_clause_hash feeds to the hash is an injective
\* encoding of the six-field tuple: two records whose tuples differ in at least
\* one field, for arbitrary string values including values that hold the
\* separator, never yield the same hash input (and so never the same
\* fingerprint).
C30_HashInputInjective ==
    ( /\ probe.state = "hashed"
      /\ AllStrings(probe.a) /\ AllStrings(probe.b)
      /\ ~SameSixFields(probe.a, probe.b) )
    => /\ hash_input(probe.a) # hash_input(probe.b)
       /\ probe.ha # probe.hb

(***************************************************************************)
(* The notation model of reasoning_models.py and the inspection renderer   *)
(* of inspect_reasoning.py.  A glyph is written as its code points:        *)
(* "<U+2B24>" is the black large circle.                                   *)
(***************************************************************************)
\* the dict of BeliefStrength.to_symbol
BeliefStrength_symbols ==
    [certain_true |-> "<U+2B24>", strong_true |-> "<U+25CF>", lean_true |-> "<U+25D0>",
     undecided |-> "<U+25CC>", lean_false |-> "<U+25D1>", certain_false |-> "<U+25CB>"]

\* the dict of ValueAttitude.to_symbol
ValueAttitude_symbols ==
    [approve |-> "<U+2B06>", disapprove |-> "<U+2B07>", mixed |-> "<U+21C6>",
     neutral |-> "<U+27C2>"]

\* the dict of ClaimType.to_symbol
ClaimType_symbols ==
    [fact |-> "<U+29C8>", value |-> "<U+2696>", policy |-> "<U+23F5>",
     preference |-> "<U+2726>"]

\* the dict of EvidenceSource.to_symbol
EvidenceSource_symbols ==
    [legal_precedent |-> "<U+2696><U+FE0F>", statute |-> "<U+1F4DC>",
     data |-> "<U+1F4CA>", theory |-> "<U+1F4DA>", observation |-> "<U+1F441>",
     testimony |-> "<U+1F5E3>", industry_practice |-> "<U+1F3E2>",
     economic |-> "<U+1F4B0>", risk |-> "<U+26A0>"]

\* the dict of EvidenceStrength.to_symbol
EvidenceStrength_symbols ==
    [very_strong |-> "<U+2605><U+2605><U+2605>", strong |-> "<U+2605><U+2605>",
     weak |-> "<U+2605>", very_weak |-> "<U+2606>"]

\* the dict of RelationType.to_symbol
RelationType_symbols ==
    [supports |-> "<U+27F6>", attacks |-> "<U+27DE>", explains |-> "<U+21E2>",
     equivalent |-> "<U+27FA>"]

\* the six enumerated categories, named as the fields that hold them
SymbolTable ==
    [belief |-> BeliefStrength_symbols, value |-> ValueAttitude_symbols,
     claim_type |-> ClaimType_symbols, source |-> EvidenceSource_symbols,
     strength |-> EvidenceStrength_symbols, relation |-> RelationType_symbols]

Categories == DOMAIN SymbolTable

\* the values of the enumeration of a category
Members(category) == DOMAIN SymbolTable[category]

\* an exception leaves the function
Raises == "<raises>"

\* a table in which strong evidence has the symbol of weak evidence
to_symbol_one_star(category, value) ==
    IF category = "strength" /\ value = "strong" THEN "<U+2605>"
    ELSE IF value \in Members(category) THEN SymbolTable[category][value]
    ELSE Raises

\* <field>.to_symbol(): the dict indexed by self.value; a field that holds a
\* string outside the enumeration is no enum member and the call raises
to_symbol(category, value) ==
    IF value \in Members(category) THEN SymbolTable[category][value] ELSE Raises

\* the orchestrator is not run
NoRun ==
    /\ input_file = <<>>
    /\ out_exists = FALSE
    /\ out_lines = <<>>
    /\ log0 = NoFile
    /\ resume = TRUE
    /\ max_workers = 0
    /\ pass = 1
    /\ prev_fail = 0
    /\ Fresh

run_state ==
    <<config, out_exists, out_lines, phase, clauses, existing_hashes, mode, pc, counters,
      semaphore, write_lock, calls, io_error, log0, pass, prev_fail>>

InitSymbol ==
    /\ NoRun
    /\ \E category \in Categories :
          \E a, b \in Members(category) :
              probe = [state |-> "input", category |-> category, a |-> a, b |-> b,
                       sa |-> "", sb |-> ""]

\* to_symbol of two members of one enumeration
Symbolize ==
    /\ probe.state = "input"
    /\ probe' = [probe EXCEPT !.state = "symbols",
                              !.sa = to_symbol(probe.category, probe.a),
                              !.sb = to_symbol(probe.category, probe.b)]
    /\ UNCHANGED run_state

NextSymbol == Symbolize

SpecSymbol == InitSymbol /\ [][NextSymbol]_vars

\* C21: notation totality and injectivity: for every value of each of the six
\* enumerated categories to_symbol returns a non-empty string, and two distinct
\* values of the same category never return the same symbol.
C21_SymbolsTotalInjective ==
    probe.state = "symbols" =>
        /\ probe.sa # Raises /\ probe.sa # ""
        /\ probe.a # probe.b => probe.sa # probe.sb

\* C21 witness: the symbols of strong and of weak evidence, one a prefix of the
\* other, were looked up
C21_Witness ==
    /\ probe.state = "symbols"
    /\ probe.category = "strength"
    /\ probe.a = "strong" /\ probe.b = "weak"

(***************************************************************************)
(* Claims, links and chains; ReasoningChain.to_notation and the queries.   *)
(***************************************************************************)
\* most claims of a chain
MaxClaims == 2
\* most links of a chain
MaxLinks == 2

\* explanation = None
None == "<None>"

EvidenceCitation(source, strength, description) ==
    [source |-> source, strength |-> strength, description |-> description]

\* a claim of agent L with proposition p, approved, a fact unless stated
StrategicClaim(claim_id, belief, evidence) ==
    [claim_id |-> claim_id, agent |-> "L", proposition |-> "p", belief |-> belief,
     value |-> "approve", claim_type |-> "fact", evidence |-> evidence]

ArgumentLink(from_claim, relation, to_claim, explanation) ==
    [from_claim |-> from_claim, to_claim |-> to_claim, relation |-> relation,
     explanation |-> explanation]

\* a proposition that holds a line break: the end of the notation line of claim
\* 1 and, on a second line, the start of the same notation line
TwoLineProposition == "p\"\n1 <U+00AB>L<U+00BB> <U+2B24><U+2B06> <U+29C8> \"p"

\* the claims chains are made of: without evidence, with one and with two
\* citations, two claims that differ in the description of a citation only, a
\* claim whose proposition holds a line break, and claims with values outside
\* the enumerations
ChainClaims ==
    {StrategicClaim("1", "certain_true", <<>>),
     [StrategicClaim("1", "certain_true", <<>>) EXCEPT !.proposition = TwoLineProposition],
     StrategicClaim("2", "lean_false", <<EvidenceCitation("data", "strong", "d1")>>),
     StrategicClaim("2", "lean_false", <<EvidenceCitation("data", "strong", "d2")>>),
     StrategicClaim("3", "undecided", <<EvidenceCitation("data", "strong", "d1"),
                                        EvidenceCitation("statute", "weak", "d1")>>),
     [StrategicClaim("1", "probably", <<>>) EXCEPT !.value = "love", !.claim_type = "guess"],
     StrategicClaim("3", "undecided", <<EvidenceCitation("rumour", "huge", "d1"),
                                        EvidenceCitation("statute", "weak", "d1")>>)}

\* the links chains are made of: a cycle (1 -> 2 -> 1), a link from an id no
\* claim has and with an empty explanation, a self-link, a relation that is
\* neither supports nor attacks, a link to an id no claim has and with a
\* relation outside the enumeration
ChainLinks ==
    {ArgumentLink("1", "supports", "2", None),
     ArgumentLink("2", "supports", "1", "why"),
     ArgumentLink("9", "supports", "1", ""),
     ArgumentLink("1", "attacks", "1", None),
     ArgumentLink("2", "explains", "1", None),
     ArgumentLink("3", "rebuts", "9", None)}

\* claims: min_length = 1
Chains ==
    [claims : SeqsUpTo(ChainClaims, MaxClaims) \ {<<>>},
     links : SeqsUpTo(ChainLinks, MaxLinks),
     prose_summary : {"s"}]

\* the ids the queries are asked about
QueryIds == {"1", "2", "9"}

\* sep.join(parts)
RECURSIVE Join(_, _)
Join(sep, parts) ==
    IF parts = <<>> THEN ""
    ELSE IF Len(parts) = 1 THEN parts[1]
    ELSE parts[1] \o sep \o Join(sep, Tail(parts))

\* every category field of the claim holds a member of its enumeration
ValidClaim(claim) ==
    /\ claim.belief \in Members("belief")
    /\ claim.value \in Members("value")
    /\ claim.claim_type \in Members("claim_type")
    /\ \A k \in DOMAIN claim.evidence :
          /\ claim.evidence[k].source \in Members("source")
          /\ claim.evidence[k].strength \in Members("strength")

ValidLink(link) == link.relation \in Members("relation")

ValidChain(chain) ==
    /\ \A k \in DOMAIN chain.claims : ValidClaim(chain.claims[k])
    /\ \A k \in DOMAIN chain.links : ValidLink(chain.links[k])

\* EvidenceCitation.to_notation
EvidenceCitation_to_notation(e) ==
    to_symbol("source", e.source) \o to_symbol("strength", e.strength)

\* a renderer that separates the citations by a comma
StrategicClaim_to_notation_comma(claim) ==
    IF ~ValidClaim(claim) THEN Raises
    ELSE LET parts == <<claim.claim_id,
                        "<U+00AB>" \o claim.agent \o "<U+00BB>",
                        to_symbol("belief", claim.belief) \o to_symbol("value", claim.value),
                        to_symbol("claim_type", claim.claim_type),
                        "\"" \o claim.proposition \o "\"">>
             ev_notation ==
                 Join(", ", [k \in DOMAIN claim.evidence |->
                                EvidenceCitation_to_notation(claim.evidence[k])])
         IN  Join(" ", IF claim.evidence # <<>>
                       THEN Append(parts, "<U+22A2> " \o ev_notation)
                       ELSE parts)

\* StrategicClaim.to_notation; a to_symbol that raises ends it
StrategicClaim_to_notation(claim) ==
    IF ~ValidClaim(claim) THEN Raises
    ELSE LET parts == <<claim.claim_id,
                        "<U+00AB>" \o claim.agent \o "<U+00BB>",
                        to_symbol("belief", claim.belief) \o to_symbol("value", claim.value),
                        to_symbol("claim_type", claim.claim_type),
                        "\"" \o claim.proposition \o "\"">>
             ev_notation ==
                 Join(" <U+22C0> ", [k \in DOMAIN claim.evidence |->
                                        EvidenceCitation_to_notation(claim.evidence[k])])
         IN  Join(" ", IF claim.evidence # <<>>
                       THEN Append(parts, "<U+22A2> " \o ev_notation)
                       ELSE parts)

\* if self.explanation: neither None nor the empty string
Truthy(text) == text # None /\ text # ""

\* ArgumentLink.to_notation
ArgumentLink_to_notation(link) ==
    IF ~ValidLink(link) THEN Raises
    ELSE LET base == link.from_claim \o " " \o to_symbol("relation", link.relation)
                         \o " " \o link.to_claim
         IN  IF Truthy(link.explanation) THEN base \o "  // " \o link.explanation ELSE base

\* the sequences with the elements of s in another order
Reorderings(s) == {[k \in DOMAIN s |-> s[p[k]]] : p \in Permutations(DOMAIN s)}

\* a renderer that puts the claims in an order of its own before rendering
ReasoningChain_to_notation_sorted(chain) ==
    IF ~ValidChain(chain) THEN Raises
    ELSE LET sorted == CHOOSE s \in Reorderings(chain.claims) : TRUE
             claim_lines == [k \in DOMAIN sorted |-> StrategicClaim_to_notation(sorted[k])]
             link_lines == [k \in DOMAIN chain.links |->
                               ArgumentLink_to_notation(chain.links[k])]
         IN  Join("\n", IF chain.links # <<>>
                        THEN claim_lines \o <<"", "Links:">> \o link_lines
                        ELSE claim_lines)

\* ReasoningChain.to_notation
ReasoningChain_to_notation(chain) ==
    IF ~ValidChain(chain) THEN Raises
    ELSE LET claim_lines == [k \in DOMAIN chain.claims |->
                                StrategicClaim_to_notation(chain.claims[k])]
             link_lines == [k \in DOMAIN chain.links |->
                               ArgumentLink_to_notation(chain.links[k])]
         IN  Join("\n", IF chain.links # <<>>
                        THEN claim_lines \o <<"", "Links:">> \o link_lines
                        ELSE claim_lines)

\* a query that takes every link to the claim, whatever its relation
get_supporting_claims_any_relation(chain, claim_id) ==
    LET supporting_ids ==
            {chain.links[k].from_claim :
                k \in {j \in DOMAIN chain.links : chain.links[j].to_claim = claim_id}}
        Supporting(c) == c.claim_id \in supporting_ids
    IN  SelectSeq(chain.claims, Supporting)

\* ReasoningChain.get_supporting_claims
get_supporting_claims(chain, claim_id) ==
    LET supporting_ids ==
            {chain.links[k].from_claim :
                k \in {j \in DOMAIN chain.links :
                          /\ chain.links[j].to_claim = claim_id
                          /\ chain.links[j].relation = "supports"}}
        Supporting(c) == c.claim_id \in supporting_ids
    IN  SelectSeq(chain.claims, Supporting)

\* ReasoningChain.get_attacking_claims
get_attacking_claims(chain, claim_id) ==
    LET attacking_ids ==
            {chain.links[k].from_claim :
                k \in {j \in DOMAIN chain.links :
                          /\ chain.links[j].to_claim = claim_id
                          /\ chain.links[j].relation = "attacks"}}
        Attacking(c) == c.claim_id \in attacking_ids
    IN  SelectSeq(chain.claims, Attacking)

(***************************************************************************)
(* inspect_reasoning.render_full_analysis: the lines it emits for the      *)
(* reasoning chain of a variation and for the chain of the comparative     *)
(* analysis.  Each emitted line is kept with what it is the line of.       *)
(***************************************************************************)
belief_map ==
    [certain_true |-> "<U+2B24>", strong_true |-> "<U+25CF>", lean_true |-> "<U+25D0>",
     undecided |-> "<U+25CC>", lean_false |-> "<U+25D1>", certain_false |-> "<U+25CB>"]

value_map ==
    [approve |-> "<U+2B06>", disapprove |-> "<U+2B07>", mixed |-> "<U+21C6>",
     neutral |-> "<U+27C2>"]

type_map ==
    [fact |-> "<U+29C8>", value |-> "<U+2696>", policy |-> "<U+23F5>",
     preference |-> "<U+2726>"]

source_map ==
    [legal_precedent |-> "<U+2696><U+FE0F>", statute |-> "<U+1F4DC>",
     data |-> "<U+1F4CA>", theory |-> "<U+1F4DA>", observation |-> "<U+1F441>",
     testimony |-> "<U+1F5E3>", industry_practice |-> "<U+1F3E2>",
     economic |-> "<U+1F4B0>", risk |-> "<U+26A0>"]

strength_map ==
    [very_strong |-> "<U+2605><U+2605><U+2605>", strong |-> "<U+2605><U+2605>",
     weak |-> "<U+2605>", very_weak |-> "<U+2606>"]

relation_map ==
    [supports |-> "<U+27F6>", attacks |-> "<U+27DE>", explains |-> "<U+21E2>",
     equivalent |-> "<U+27FA>"]

\* map.get(key, default)
dict_get(map, key, default) ==
    IF key \in DOMAIN map THEN map[key] ELSE default

\* an emitted line: kind is header, claim, evidence or link, k the position of
\* the claim or link in the chain (0 for a header)
Emit(kind, k, text) == [kind |-> kind, k |-> k, text |-> text]

\* line_parts of a claim, before the evidence
line_parts(claim) ==
    <<claim.claim_id,
      "<U+00AB>" \o claim.agent \o "<U+00BB>",
      dict_get(belief_map, claim.belief, "?") \o dict_get(value_map, claim.value, "?"),
      dict_get(type_map, claim.claim_type, "?"),
      "\"" \o claim.proposition \o "\"">>

\* the evidence part appended to line_parts in the variation section
ev_part(claim) ==
    LET ev_parts == [k \in DOMAIN claim.evidence |->
                        dict_get(source_map, claim.evidence[k].source, "?")
                            \o dict_get(strength_map, claim.evidence[k].strength, "?")]
    IN  "<U+22A2> " \o Join(" <U+22C0> ", ev_parts)

\* the claim loop of the variation section: the line of the claim and one line
\* for the description of each citation
RECURSIVE variation_claims(_, _)
variation_claims(claims, k) ==
    IF k > Len(claims) THEN <<>>
    ELSE LET claim == claims[k]
             parts == IF claim.evidence # <<>>
                      THEN Append(line_parts(claim), ev_part(claim))
                      ELSE line_parts(claim)
         IN  <<Emit("claim", k, "  " \o Join(" ", parts))>>
                 \o [j \in DOMAIN claim.evidence |->
                        Emit("evidence", k, "    <U+2192> " \o claim.evidence[j].description)]
                 \o variation_claims(claims, k + 1)

\* the link loop of the variation section
variation_links(links) ==
    IF links = <<>> THEN <<>>
    ELSE <<Emit("header", 0, ""), Emit("header", 0, "  Links:")>>
             \o [k \in DOMAIN links |->
                    LET link == links[k]
                        rel_sym == dict_get(relation_map, link.relation, "?")
                        link_str == "  " \o link.from_claim \o " " \o rel_sym \o " "
                                        \o link.to_claim
                    IN  Emit("link", k,
                             IF Truthy(link.explanation)
                             THEN link_str \o "  // " \o link.explanation
                             ELSE link_str)]

\* the prose summary that ends both sections
prose_lines(chain_data) ==
    <<Emit("header", 0, ""), Emit("header", 0, "PROSE SUMMARY:"),
      Emit("header", 0, "  " \o chain_data.prose_summary)>>

\* render_full_analysis, from STRUCTURED REASONING: to the prose summary of a
\* variation
variation_reasoning(chain_data) ==
    <<Emit("header", 0, "STRUCTURED REASONING:"), Emit("header", 0, "")>>
        \o variation_claims(chain_data.claims, 1)
        \o variation_links(chain_data.links)
        \o prose_lines(chain_data)

\* the claim loop of the comparative analysis
comparative_claims(claims) ==
    [k \in DOMAIN claims |-> Emit("claim", k, "  " \o Join(" ", line_parts(claims[k])))]

\* the link loop of the comparative analysis
comparative_links(links) ==
    IF links = <<>> THEN <<>>
    ELSE <<Emit("header", 0, ""), Emit("header", 0, "  Links:")>>
             \o [k \in DOMAIN links |->
                    LET link == links[k]
                        rel_sym == dict_get(relation_map, link.relation, "?")
                    IN  Emit("link", k, "  " \o link.from_claim \o " " \o rel_sym \o " "
                                            \o link.to_claim)]

\* render_full_analysis, the reasoning chain of the comparative analysis
comparative_reasoning(chain_data) ==
    comparative_claims(chain_data.claims)
        \o comparative_links(chain_data.links)
        \o prose_lines(chain_data)

(***************************************************************************)
(* The renderers and the queries applied to a chain.                       *)
(***************************************************************************)
InitChain ==
    /\ NoRun
    /\ \E chain \in Chains :
          probe = [state |-> "input", chain |-> chain, given |-> chain, other |-> chain,
                   out |-> "", out_other |-> "", claim_id |-> "", result |-> <<>>,
                   out_var |-> <<>>, out_cmp |-> <<>>]

\* to_notation of the chain and of the chain with its claims in another order
ToNotation ==
    /\ probe.state = "input"
    /\ \E claims \in Reorderings(probe.chain.claims) :
          LET other == [probe.chain EXCEPT !.claims = claims]
          IN  probe' = [probe EXCEPT !.state = "notation",
                                     !.other = other,
                                     !.out = ReasoningChain_to_notation(probe.chain),
                                     !.out_other = ReasoningChain_to_notation(other)]
    /\ UNCHANGED run_state

GetSupportingClaims ==
    /\ probe.state = "input"
    /\ \E claim_id \in QueryIds :
          probe' = [probe EXCEPT !.state = "supporting",
                                 !.claim_id = claim_id,
                                 !.result = get_supporting_claims(probe.chain, claim_id)]
    /\ UNCHANGED run_state

GetAttackingClaims ==
    /\ probe.state = "input"
    /\ \E claim_id \in QueryIds :
          probe' = [probe EXCEPT !.state = "attacking",
                                 !.claim_id = claim_id,
                                 !.result = get_attacking_claims(probe.chain, claim_id)]
    /\ UNCHANGED run_state

\* render_full_analysis of a record whose variation and whose comparative
\* analysis both hold the chain
RenderFullAnalysis ==
    /\ probe.state = "input"
    /\ probe' = [probe EXCEPT !.state = "inspected",
                              !.out_var = variation_reasoning(probe.chain),
                              !.out_cmp = comparative_reasoning(probe.chain)]
    /\ UNCHANGED run_state

NextChain ==
    \/ ToNotation
    \/ GetSupportingClaims
    \/ GetAttackingClaims
    \/ RenderFullAnalysis

SpecChain == InitChain /\ [][NextChain]_vars

(***************************************************************************)
(* Properties of the notation.                                             *)
(***************************************************************************)
\* the symbol of a value, the placeholder for a value outside the enumeration
SymbolOrPlaceholder(category, value) ==
    IF value \in Members(category) THEN SymbolTable[category][value] ELSE "?"

\* every element of s with sep in front of it
RECURSIVE SepBefore(_, _)
SepBefore(sep, s) ==
    IF s = <<>> THEN "" ELSE sep \o Head(s) \o SepBefore(sep, Tail(s))

\* <claim_id> <<agent>> <belief_symbol><value_symbol> <type_symbol> "<proposition>"
ExpectedClaimHead(c) ==
    c.claim_id \o " <U+00AB>" \o c.agent \o "<U+00BB> "
        \o SymbolOrPlaceholder("belief", c.belief)
        \o SymbolOrPlaceholder("value", c.value)
        \o " " \o SymbolOrPlaceholder("claim_type", c.claim_type)
        \o " \"" \o c.proposition \o "\""

\* the turnstile and the evidence symbols joined by the wedge
ExpectedEvidence(c) ==
    LET sym == [k \in DOMAIN c.evidence |->
                   SymbolOrPlaceholder("source", c.evidence[k].source)
                       \o SymbolOrPlaceholder("strength", c.evidence[k].strength)]
    IN  IF c.evidence = <<>> THEN ""
        ELSE " <U+22A2> " \o Head(sym) \o SepBefore(" <U+22C0> ", Tail(sym))

ExpectedClaimLine(c) == ExpectedClaimHead(c) \o ExpectedEvidence(c)

\* <from_claim> <relation_symbol> <to_claim>, without the explanation
ExpectedLinkHead(l) ==
    l.from_claim \o " " \o SymbolOrPlaceholder("relation", l.relation) \o " " \o l.to_claim

ExpectedLinkLine(l) ==
    ExpectedLinkHead(l)
        \o (IF l.explanation \notin {None, ""} THEN "  // " \o l.explanation ELSE "")

ExpectedNotation(chain) ==
    LET claim_lines == [k \in DOMAIN chain.claims |-> ExpectedClaimLine(chain.claims[k])]
        link_lines == [k \in DOMAIN chain.links |-> ExpectedLinkLine(chain.links[k])]
    IN  Head(claim_lines) \o SepBefore("\n", Tail(claim_lines))
            \o (IF chain.links = <<>> THEN ""
                ELSE "\n" \o "\n" \o "Links:" \o SepBefore("\n", link_lines))

\* the emitted lines of one kind, in the order they were emitted
LinesOf(lines, kind) ==
    LET OfKind(line) == line.kind = kind
    IN  SelectSeq(lines, OfKind)

\* C22: looking up the symbol of an unrecognized category value never raises:
\* on every rendering path (to_notation of the model, both sections of
\* render_full_analysis), for each of the six categories, a value outside the
\* enumeration is rendered as "?" and the rest of the record is rendered.
C22_PlaceholderNeverRaises ==
    /\ probe.state = "notation" =>
          /\ probe.out # Raises
          /\ probe.out = ExpectedNotation(probe.chain)
    /\ probe.state = "inspected" =>
          LET chain == probe.chain
              var_claims == LinesOf(probe.out_var, "claim")
              var_links == LinesOf(probe.out_var, "link")
              cmp_claims == LinesOf(probe.out_cmp, "claim")
              cmp_links == LinesOf(probe.out_cmp, "link")
          IN  /\ Len(var_claims) = Len(chain.claims) /\ Len(cmp_claims) = Len(chain.claims)
              /\ Len(var_links) = Len(chain.links) /\ Len(cmp_links) = Len(chain.links)
              /\ \A k \in DOMAIN chain.claims :
                    /\ var_claims[k].text = "  " \o ExpectedClaimLine(chain.claims[k])
                    /\ cmp_claims[k].text = "  " \o ExpectedClaimHead(chain.claims[k])
              /\ \A k \in DOMAIN chain.links :
                    /\ var_links[k].text = "  " \o ExpectedLinkLine(chain.links[k])
                    /\ cmp_links[k].text = "  " \o ExpectedLinkHead(chain.links[k])

\* C23: ReasoningChain.to_notation returns exactly this structure: one line per
\* claim in stored order, each the claim id, the agent in guillemets, the belief
\* and value symbols, the type symbol and the quoted proposition, followed when
\* the evidence is non-empty by the turnstile and the evidence symbols joined by
\* the wedge; then, only when links are non-empty, a blank line, a Links: line
\* and one line per link in stored order, with the explanation appended when
\* there is one.  No line is sorted, dropped or added.
C23_NotationStructure ==
    (probe.state = "notation" /\ ValidChain(probe.chain)) =>
        probe.out = ExpectedNotation(probe.chain)

\* C23 witness: a chain of two claims, the second with two citations, and two
\* links, one with an explanation, was rendered
C23_Witness ==
    /\ probe.state = "notation"
    /\ ValidChain(probe.chain)
    /\ Len(probe.chain.claims) = 2
    /\ Len(probe.chain.claims[2].evidence) = 2
    /\ Len(probe.chain.links) = 2
    /\ probe.chain.links[1].explanation = None
    /\ probe.chain.links[2].explanation = "why"

\* the notation line of each claim of a chain, in stored order
ClaimLines(chain) ==
    [k \in DOMAIN chain.claims |-> StrategicClaim_to_notation(chain.claims[k])]

\* C24: the renderer is order-sensitive: for any two chains that differ only in
\* the order of their claims (same claims, same links, same summary, different
\* claim sequence), ReasoningChain.to_notation yields different output.
C24_OrderSensitive ==
    ( /\ probe.state = "notation"
      /\ ValidChain(probe.chain)
      /\ probe.other.claims # probe.chain.claims )
    => probe.out # probe.out_other

\* no claim of the chain has a line break in its notation line (agent and
\* claim id hold none in any chain of the model)
SingleLineClaims(chain) ==
    \A k \in DOMAIN chain.claims : chain.claims[k].proposition # TwoLineProposition

\* C24 as amended: two chains that differ only in the order of their claims,
\* whose sequences of claim notation lines differ and none of whose claim
\* notation lines holds a line break, yield different output.
C24_OrderSensitiveLines ==
    ( /\ probe.state = "notation"
      /\ ValidChain(probe.chain)
      /\ probe.other.claims # probe.chain.claims
      /\ ClaimLines(probe.other) # ClaimLines(probe.chain)
      /\ SingleLineClaims(probe.chain) )
    => probe.out # probe.out_other

\* C24 witness: a chain of claims 1 and 2 with a link, and the chain with claims
\* 2 and 1, were rendered
C24_Witness ==
    /\ probe.state = "notation"
    /\ ValidChain(probe.chain)
    /\ Len(probe.chain.claims) = 2
    /\ probe.chain.claims[1].claim_id = "1" /\ probe.chain.claims[2].claim_id = "2"
    /\ probe.other.claims = <<probe.chain.claims[2], probe.chain.claims[1]>>
    /\ probe.chain.links # <<>>
    /\ SingleLineClaims(probe.chain)
    /\ probe.out # probe.out_other

\* C25: for every chain (with cycles, self-links, duplicate links, links whose
\* from_claim or to_claim matches no stored claim) and every id,
\* get_supporting_claims(id) returns exactly the stored claims X for which a
\* link (X -> id, relation = supports) exists, and get_attacking_claims(id) the
\* same for relation = attacks; links of other relations contribute nothing, a
\* dangling from_claim is omitted, neither query raises, neither changes the
\* chain.
C25_QueriesExact ==
    probe.state \in {"supporting", "attacking"} =>
        LET chain == probe.chain
            relation == IF probe.state = "supporting" THEN "supports" ELSE "attacks"
            Linked(k) ==
                \E j \in DOMAIN chain.links :
                    /\ chain.links[j].from_claim = chain.claims[k].claim_id
                    /\ chain.links[j].to_claim = probe.claim_id
                    /\ chain.links[j].relation = relation
            linked == {k \in DOMAIN chain.claims : Linked(k)}
        IN  /\ probe.result # Raises
            /\ Len(probe.result) = Cardinality(linked)
            /\ \A k \in linked : \E m \in DOMAIN probe.result : probe.result[m] = chain.claims[k]
            /\ \A m \in DOMAIN probe.result :
                  \E k \in linked : probe.result[m] = chain.claims[k]
            /\ probe.chain = probe.given

\* C25 witness: the supporters of claim 1 in a chain with a supports link from
\* claim 2, a link of another relation from claim 2 and claims 1 and 2: claim 2
\* alone is returned
C25_Witness ==
    /\ probe.state = "supporting"
    /\ probe.claim_id = "1"
    /\ \E j \in DOMAIN probe.chain.links :
          /\ probe.chain.links[j].from_claim = "2"
          /\ probe.chain.links[j].relation = "supports"
    /\ \E j \in DOMAIN probe.chain.links : probe.chain.links[j].relation = "explains"
    /\ Len(probe.chain.claims) = 2
    /\ Len(probe.result) = 1
    /\ probe.result[1].claim_id = "2"

\* C29: the inspection renderer agrees with the model renderer: for every
\* chain whose category values are all valid, in the per-variation section and
\* in the comparative-analysis section of render_full_analysis, the line of
\* each claim is StrategicClaim.to_notation of the claim after two spaces
\* (evidence suffix included) and the line of each link is
\* ArgumentLink.to_notation of the link after two spaces (explanation suffix
\* included).
C29_InspectAgreesWithModel ==
    (probe.state = "inspected" /\ ValidChain(probe.chain)) =>
        \A section \in {probe.out_var, probe.out_cmp} :
            LET claim_lines == LinesOf(section, "claim")
                link_lines == LinesOf(section, "link")
            IN  /\ Len(claim_lines) = Len(probe.chain.claims)
                /\ Len(link_lines) = Len(probe.chain.links)
                /\ \A k \in DOMAIN probe.chain.claims :
                      claim_lines[k].text
                          = "  " \o StrategicClaim_to_notation(probe.chain.claims[k])
                /\ \A k \in DOMAIN probe.chain.links :
                      link_lines[k].text
                          = "  " \o ArgumentLink_to_notation(probe.chain.links[k])

====
